---- MODULE Spec2Model ----
(***************************************************************************)
(* Model of the holzeinschlag-austria web server (package main).           *)
(*                                                                         *)
(* Job supervisor: the /api/start-pipeline handler, the goroutine it       *)
(* launches and the external pipeline process, with pipelineRunning and    *)
(* pipelineMutex.  Each request is a thread that moves through the         *)
(* handler one statement at a time; a request that wins the test-and-set   *)
(* owns one goroutine.                                                     *)
(*                                                                         *)
(* Sessions: the /login handler with checkPassword, generateToken and      *)
(* createSession, the sessions map, the clock, and isValidSession.  A      *)
(* /login request touches shared state once (the store under               *)
(* sessionMutex), so the handler is one action.                            *)
(*                                                                         *)
(* Routes: the mux and authMiddleware, which every handler but /login and  *)
(* the public files is registered in.                                      *)
(*                                                                         *)
(* Polls: /api/status and /api/pipeline-log, each one read of a file, next *)
(* to the job supervisor (PollSpec).                                       *)
(*                                                                         *)
(* Export: the /api/export handler, which builds a statement and a file    *)
(* name from the query, runs ogr2ogr on a temporary path taken from the    *)
(* clock, and removes the file when it returns (ExportSpec follows         *)
(* requests side by side, BuildSpec one request for every query).          *)
(*                                                                         *)
(* Spec composes the components; JobSpec, SessionSpec, PollSpec,           *)
(* ExportSpec and BuildSpec run one of them with the variables of the      *)
(* others unchanged.                                                       *)
(***************************************************************************)
EXTENDS Integers, Sequences, FiniteSets, TLC

\* Number of /api/start-pipeline requests of one run of the model.
MaxStarts == 3
StartReqs == 1..MaxStarts

\* r.Method of a request.
Methods == {"GET", "POST", "PUT"}

\* The response not yet written.
NoResp == [code |-> 0, status |-> ""]

\* No thread holds the mutex.
NoOwner == <<"none", 0>>

VARIABLES
    pipelineRunning,  \* the flag                          (var pipelineRunning)
    pipelineMutex,    \* the thread holding pipelineMutex, or NoOwner
    method,           \* method[r]: r.Method of request r
    hpc,              \* hpc[r]: where request r's handler stands
    resp,             \* resp[r]: the response written to request r
    gpc,              \* gpc[r]: where the goroutine launched by request r stands
    outcome,          \* outcome[r]: how the goroutine's job ended
    log,              \* processing/pipeline.log: [exists, data]
    now,              \* time.Now(), in hours since the server started
    sessions,         \* the sessions map: token -> expiry
    lastLogin,        \* the /login exchange that completed in this state, if any
    lastCheck,        \* the isValidSession call that returned in this state, if any
    front,            \* the request the mux dispatched in this state, if any
    statusFile,       \* processing/status.json
    lastPoll,         \* the /api/status or /api/pipeline-log exchange under way
    nano,             \* time.Now().UnixNano(), as far as /api/export reads it
    epc,              \* epc[e]: where export request e's handler stands
    equery,           \* equery[e]: the query parameters of export request e
    epath,            \* epath[e]: tmpPath of export request e
    tool,             \* tool[e]: the ogr2ogr invocations of export request e
    tmp,              \* os.TempDir(): the export files, by the stamp in their name
    eresp             \* eresp[e]: the response written to export request e

jobVars == <<pipelineRunning, pipelineMutex, method, hpc, resp, gpc, outcome, log>>

sessionVars == <<now, sessions, lastLogin, lastCheck, front>>

pollVars == <<statusFile, lastPoll>>

exportVars == <<nano, epc, equery, epath, tool, tmp, eresp>>

vars == <<pipelineRunning, pipelineMutex, method, hpc, resp, gpc, outcome, log,
          now, sessions, lastLogin, lastCheck, front, statusFile, lastPoll,
          nano, epc, equery, epath, tool, tmp, eresp>>

Handler(r) == <<"handler", r>>
Job(r) == <<"job", r>>

\* pipeline.log before the server starts: absent, or left by an earlier run
\* of the server.  The data of the file is the set of the runs whose output
\* it holds (0 stands for a run before this server started).
InitialLogs == {[exists |-> FALSE, data |-> {}], [exists |-> TRUE, data |-> {0}]}

JobInit ==
    /\ pipelineRunning = FALSE
    /\ pipelineMutex = NoOwner
    /\ method = [r \in StartReqs |-> "none"]
    /\ hpc = [r \in StartReqs |-> "new"]
    /\ resp = [r \in StartReqs |-> NoResp]
    /\ gpc = [r \in StartReqs |-> "none"]
    /\ outcome = [r \in StartReqs |-> "none"]
    /\ log \in InitialLogs

----------------------------------------------------------------------------
(* Sessions, cookies and routes: the definitions.                          *)

\* const sessionDuration = 24 * time.Hour, in hours.
sessionDuration == 24
\* b := make([]byte, 32)
TokenBytes == 32
\* The clock is read up to this hour.
MaxNow == 32
\* The clock advances in steps of this many hours.
TickHours == 8

validPasswords == <<"fridolin2026", "lutz2026">>

\* The values of the form field "password" that are tried ("" also stands
\* for a request without the field: r.FormValue returns "").
Passwords == {"", "fridolin2026", "lutz2026", "lutz2027"}

\* r.TLS != nil, and r.Header.Get("X-Forwarded-Proto").
TlsStates == BOOLEAN
ForwardedProtos == {"", "http", "https"}

\* The outcomes of rand.Read(b) that are drawn: 32 bytes, here all of one
\* value (all zero is also what b holds when rand.Read fails, its error
\* being ignored).
ByteSamples == {0, 171}
RandomBlocks == {[i \in 1..TokenBytes |-> v] : v \in ByteSamples}

HexDigits == <<"0", "1", "2", "3", "4", "5", "6", "7",
               "8", "9", "a", "b", "c", "d", "e", "f">>

\* hex.EncodeToString(b): two lower-case digits per byte.
HexEncode(b) ==
    [i \in 1..(2 * Len(b)) |->
        IF i % 2 = 1 THEN HexDigits[(b[(i + 1) \div 2] \div 16) + 1]
                     ELSE HexDigits[(b[i \div 2] % 16) + 1]]

\* generateToken(), given what rand.Read put into b.
generateToken(b) == HexEncode(b)

Tokens == {generateToken(b) : b \in RandomBlocks}

\* sha256.Sum256(s): the digest of s.  SHA-256 is taken to be free of
\* collisions: two digests are equal exactly when their inputs are.
Sum256(s) == <<"sha256", s>>

\* subtle.ConstantTimeCompare(x, y) on two digests (equal lengths).
ConstantTimeCompare(x, y) == IF x = y THEN 1 ELSE 0

\* Mutant of checkPassword: only the first entry of the list is compared.
checkPasswordFirstOnly(password) ==
    ConstantTimeCompare(Sum256(password), Sum256(validPasswords[1])) = 1

checkPassword(password) ==
    \E i \in 1..Len(validPasswords) :
        ConstantTimeCompare(Sum256(password), Sum256(validPasswords[i])) = 1

\* Mutant of isSecure: the forwarded-proto header is not consulted.
isSecureTlsOnly(tls, xfp) == tls

\* isSecure := r.Header.Get("X-Forwarded-Proto") == "https" || r.TLS != nil
isSecure(tls, xfp) == xfp = "https" \/ tls

\* The cookie createSession sets.
SessionCookie(token, secure) ==
    [name |-> "session", value |-> token, path |-> "/", httpOnly |-> TRUE,
     secure |-> secure, sameSite |-> IF secure THEN "None" ELSE "Lax",
     maxAge |-> sessionDuration * 3600]

\* No Set-Cookie header in the response.
NoSetCookie == [name |-> "", value |-> <<>>, path |-> "", httpOnly |-> FALSE,
                secure |-> FALSE, sameSite |-> "", maxAge |-> 0]

\* sessions[token] = time.Now().Add(sessionDuration)
StoreSession(sess, token, t) ==
    [k \in (DOMAIN sess) \cup {token} |->
        IF k = token THEN t + sessionDuration ELSE sess[k]]

\* The request carries no cookie named "session".
NoCookie == [present |-> FALSE, value |-> <<>>]

\* The values of the request's session cookie that are tried: every token
\* generateToken can return, the empty value, a 3-character value and an
\* 8-character value that is no token.
CookieValues ==
    Tokens \cup {<<>>, <<"a", "b", "c">>,
                 <<"d", "e", "a", "d", "b", "e", "e", "f">>}
CookieInputs == {NoCookie} \cup {[present |-> TRUE, value |-> v] : v \in CookieValues}

\* isValidSession(r) with r's session cookie, the map and the clock:
\* "true", "false", or "panic" (the slice cookie.Value[:8] of the log line
\* is out of range for a value shorter than 8).
isValidSession(cookie, sess, t) ==
    IF ~cookie.present THEN "false"
    ELSE IF Len(cookie.value) < 8 THEN "panic"
    ELSE IF cookie.value \in DOMAIN sess /\ t < sess[cookie.value] THEN "true"
    ELSE "false"

\* No /login exchange has completed in the current state.
NoLogin == [method |-> "none", password |-> "", tls |-> FALSE, xfp |-> "",
            status |-> 0, body |-> "", location |-> "", cookie |-> NoSetCookie]

\* No isValidSession call has returned in the current state.
NoCheck == [cookie |-> NoCookie, result |-> "none"]

\* Request paths, as their segments: <<>> is "/".
Paths ==
    {<<>>, <<"data", "gemeinden.json">>, <<"robots.txt">>,
     <<"login">>, <<"api", "status">>,
     <<"api", "start-pipeline">>, <<"api", "pipeline-log">>,
     <<"api", "export">>, <<"api", "unknown">>}

\* The routes registered on the default mux: the handler a path is matched
\* to (an exact pattern, else the longest pattern ending in "/"), and
\* whether the handler was registered inside authMiddleware.
Mux(path) ==
    IF path = <<"login">> THEN [handler |-> "login", wrapped |-> FALSE]
    ELSE IF path \in {<<"robots.txt">>, <<"sitemap.xml">>, <<"og-image.png">>}
    THEN [handler |-> "public_file", wrapped |-> FALSE]
    ELSE IF path = <<"api", "status">>
    THEN [handler |-> "status", wrapped |-> TRUE]
    ELSE IF path = <<"api", "start-pipeline">>
    THEN [handler |-> "start-pipeline", wrapped |-> TRUE]
    ELSE IF path = <<"api", "pipeline-log">>
    THEN [handler |-> "pipeline-log", wrapped |-> TRUE]
    ELSE IF path = <<"api", "export">>
    THEN [handler |-> "export", wrapped |-> TRUE]
    ELSE IF Len(path) >= 2 /\ path[1] = "data"
    THEN [handler |-> "data_files", wrapped |-> TRUE]
    ELSE [handler |-> "static_files", wrapped |-> TRUE]

\* A gate that lets only requests with a live session through to next.
authMiddlewareGated(next, cookie, sess, t) ==
    IF cookie.present /\ cookie.value \in DOMAIN sess /\ t < sess[cookie.value]
    THEN next
    ELSE "login_redirect"

\* authMiddleware := func(next http.Handler) http.Handler { return next }:
\* the handler that serves a request with this cookie at time t.
authMiddleware(next, cookie, sess, t) == next

\* The handler that a request for path with this cookie is served by.
Dispatch(path, cookie, sess, t) ==
    IF Mux(path).wrapped
    THEN authMiddleware(Mux(path).handler, cookie, sess, t)
    ELSE Mux(path).handler

NoFront == [path |-> <<"none">>, cookie |-> NoCookie, handler |-> "none"]

----------------------------------------------------------------------------
(* The /api/start-pipeline handler.                                        *)

\* Mutant of StartArrive: the method is not checked.
StartArriveAnyMethod(r, m) ==
    /\ hpc[r] = "new"
    /\ method' = [method EXCEPT ![r] = m]
    /\ hpc' = [hpc EXCEPT ![r] = "lock"]
    /\ UNCHANGED <<pipelineRunning, pipelineMutex, resp, gpc, outcome, log, sessionVars,
                 pollVars, exportVars>>

\* A request arrives, with some cookie, and the mux hands it to the handler;
\* the handler checks r.Method: anything but POST is answered 405 and the
\* handler returns.
StartArrive(r, m) ==
    /\ hpc[r] = "new"
    /\ \E c \in CookieInputs :
           Dispatch(<<"api", "start-pipeline">>, c, sessions, now) = "start-pipeline"
    /\ method' = [method EXCEPT ![r] = m]
    /\ IF m # "POST"
         THEN /\ resp' = [resp EXCEPT ![r] = [code |-> 405, status |-> ""]]
              /\ hpc' = [hpc EXCEPT ![r] = "done"]
         ELSE /\ hpc' = [hpc EXCEPT ![r] = "lock"]
              /\ UNCHANGED resp
    /\ UNCHANGED <<pipelineRunning, pipelineMutex, gpc, outcome, log, sessionVars,
                 pollVars, exportVars>>

\* pipelineMutex.Lock()
StartLock(r) ==
    /\ hpc[r] = "lock"
    /\ pipelineMutex = NoOwner
    /\ pipelineMutex' = Handler(r)
    /\ hpc' = [hpc EXCEPT ![r] = "test"]
    /\ UNCHANGED <<pipelineRunning, method, resp, gpc, outcome, log, sessionVars,
                 pollVars, exportVars>>

\* Mutant of StartTest: the flag is not tested.
StartTestBlind(r) ==
    /\ hpc[r] = "test"
    /\ hpc' = [hpc EXCEPT ![r] = "set"]
    /\ UNCHANGED <<pipelineRunning, pipelineMutex, method, resp, gpc, outcome, log, sessionVars,
                 pollVars, exportVars>>

\* if pipelineRunning { ... }
StartTest(r) ==
    /\ hpc[r] = "test"
    /\ hpc' = [hpc EXCEPT ![r] = IF pipelineRunning THEN "unlock_busy" ELSE "set"]
    /\ UNCHANGED <<pipelineRunning, pipelineMutex, method, resp, gpc, outcome, log, sessionVars,
                 pollVars, exportVars>>

\* pipelineMutex.Unlock() of the branch that found the flag set
StartUnlockBusy(r) ==
    /\ hpc[r] = "unlock_busy"
    /\ pipelineMutex' = NoOwner
    /\ hpc' = [hpc EXCEPT ![r] = "respond_busy"]
    /\ UNCHANGED <<pipelineRunning, method, resp, gpc, outcome, log, sessionVars,
                 pollVars, exportVars>>

\* Mutant of StartRespondBusy: the request is queued, its job starts later.
StartRespondBusyQueued(r) ==
    /\ hpc[r] = "respond_busy"
    /\ resp' = [resp EXCEPT ![r] = [code |-> 200, status |-> "already_running"]]
    /\ hpc' = [hpc EXCEPT ![r] = "done"]
    /\ gpc' = [gpc EXCEPT ![r] = "create"]
    /\ UNCHANGED <<pipelineRunning, pipelineMutex, method, outcome, log, sessionVars,
                 pollVars, exportVars>>

\* the "already_running" response, and return
StartRespondBusy(r) ==
    /\ hpc[r] = "respond_busy"
    /\ resp' = [resp EXCEPT ![r] = [code |-> 200, status |-> "already_running"]]
    /\ hpc' = [hpc EXCEPT ![r] = "done"]
    /\ UNCHANGED <<pipelineRunning, pipelineMutex, method, gpc, outcome, log, sessionVars,
                 pollVars, exportVars>>

\* pipelineRunning = true
StartSet(r) ==
    /\ hpc[r] = "set"
    /\ pipelineRunning' = TRUE
    /\ hpc' = [hpc EXCEPT ![r] = "unlock_ok"]
    /\ UNCHANGED <<pipelineMutex, method, resp, gpc, outcome, log, sessionVars,
                 pollVars, exportVars>>

\* pipelineMutex.Unlock() after the flag was set
StartUnlockOk(r) ==
    /\ hpc[r] = "unlock_ok"
    /\ pipelineMutex' = NoOwner
    /\ hpc' = [hpc EXCEPT ![r] = "go"]
    /\ UNCHANGED <<pipelineRunning, method, resp, gpc, outcome, log, sessionVars,
                 pollVars, exportVars>>

\* go func() { ... }()
StartGo(r) ==
    /\ hpc[r] = "go"
    /\ gpc' = [gpc EXCEPT ![r] = "create"]
    /\ hpc' = [hpc EXCEPT ![r] = "respond_ok"]
    /\ UNCHANGED <<pipelineRunning, pipelineMutex, method, resp, outcome, log, sessionVars,
                 pollVars, exportVars>>

\* Mutant of StartRespondOk: the handler waits for its job before it answers.
StartRespondOkWaits(r) ==
    /\ hpc[r] = "respond_ok"
    /\ gpc[r] = "done"
    /\ resp' = [resp EXCEPT ![r] = [code |-> 200, status |-> "started"]]
    /\ hpc' = [hpc EXCEPT ![r] = "done"]
    /\ UNCHANGED <<pipelineRunning, pipelineMutex, method, gpc, outcome, log, sessionVars,
                 pollVars, exportVars>>

\* the "started" response, and return
StartRespondOk(r) ==
    /\ hpc[r] = "respond_ok"
    /\ resp' = [resp EXCEPT ![r] = [code |-> 200, status |-> "started"]]
    /\ hpc' = [hpc EXCEPT ![r] = "done"]
    /\ UNCHANGED <<pipelineRunning, pipelineMutex, method, gpc, outcome, log, sessionVars,
                 pollVars, exportVars>>

----------------------------------------------------------------------------
(* The goroutine of a started job.  Its deferred calls run last in, first  *)
(* out: f.Close(), then the function that resets the flag.                 *)

\* Mutant of JobCreate: the log file is opened for appending.
JobCreateAppend(r, ok) ==
    /\ gpc[r] = "create"
    /\ IF ok
         THEN /\ log' = [exists |-> TRUE, data |-> log.data]
              /\ gpc' = [gpc EXCEPT ![r] = "run"]
              /\ UNCHANGED outcome
         ELSE /\ gpc' = [gpc EXCEPT ![r] = "lock"]
              /\ outcome' = [outcome EXCEPT ![r] = "create_failed"]
              /\ UNCHANGED log
    /\ UNCHANGED <<pipelineRunning, pipelineMutex, method, hpc, resp, sessionVars,
                   pollVars, exportVars>>

\* Mutant of JobCreate: the reset is not deferred before os.Create, so the
\* return on failure skips it.
JobCreateNoReset(r, ok) ==
    /\ gpc[r] = "create"
    /\ IF ok
         THEN /\ log' = [exists |-> TRUE, data |-> {}]
              /\ gpc' = [gpc EXCEPT ![r] = "run"]
              /\ UNCHANGED outcome
         ELSE /\ gpc' = [gpc EXCEPT ![r] = "done"]
              /\ outcome' = [outcome EXCEPT ![r] = "create_failed"]
              /\ UNCHANGED log
    /\ UNCHANGED <<pipelineRunning, pipelineMutex, method, hpc, resp, sessionVars,
                 pollVars, exportVars>>

\* f, err := os.Create(logFile): on success the file exists and is empty and
\* cmd.Run() starts the process with f as stdout and stderr; on failure the
\* goroutine returns, which runs the deferred reset only (f.Close() is not
\* yet deferred).
JobCreate(r, ok) ==
    /\ gpc[r] = "create"
    /\ IF ok
         THEN /\ log' = [exists |-> TRUE, data |-> {}]
              /\ gpc' = [gpc EXCEPT ![r] = "run"]
              /\ UNCHANGED outcome
         ELSE /\ gpc' = [gpc EXCEPT ![r] = "lock"]
              /\ outcome' = [outcome EXCEPT ![r] = "create_failed"]
              /\ UNCHANGED log
    /\ UNCHANGED <<pipelineRunning, pipelineMutex, method, hpc, resp, sessionVars,
                 pollVars, exportVars>>

\* Mutant of ProcWrite: the process is not waited for and writes on.
ProcWriteDetached(r) ==
    /\ gpc[r] \in {"run", "close", "lock", "reset", "unlock", "done"}
    /\ outcome[r] # "create_failed"
    /\ r \notin log.data
    /\ log' = [log EXCEPT !.data = @ \cup {r}]
    /\ UNCHANGED <<pipelineRunning, pipelineMutex, method, hpc, resp, gpc, outcome,
                   sessionVars, pollVars, exportVars>>

\* The external process writes to its stdout or stderr, both the file f.
ProcWrite(r) ==
    /\ gpc[r] = "run"
    /\ r \notin log.data
    /\ log' = [log EXCEPT !.data = @ \cup {r}]
    /\ UNCHANGED <<pipelineRunning, pipelineMutex, method, hpc, resp, gpc, outcome, sessionVars,
                 pollVars, exportVars>>

\* The external process exits and cmd.Run() returns: nil for exit code 0,
\* an error otherwise; either way the goroutine only logs and returns.
ProcExit(r, code) ==
    /\ gpc[r] = "run"
    /\ outcome' = [outcome EXCEPT ![r] = IF code = 0 THEN "exit_zero" ELSE "exit_nonzero"]
    /\ gpc' = [gpc EXCEPT ![r] = "close"]
    /\ UNCHANGED <<pipelineRunning, pipelineMutex, method, hpc, resp, log, sessionVars,
                 pollVars, exportVars>>

\* deferred f.Close()
JobClose(r) ==
    /\ gpc[r] = "close"
    /\ gpc' = [gpc EXCEPT ![r] = "lock"]
    /\ UNCHANGED <<pipelineRunning, pipelineMutex, method, hpc, resp, outcome, log, sessionVars,
                 pollVars, exportVars>>

\* deferred pipelineMutex.Lock()
JobLock(r) ==
    /\ gpc[r] = "lock"
    /\ pipelineMutex = NoOwner
    /\ pipelineMutex' = Job(r)
    /\ gpc' = [gpc EXCEPT ![r] = "reset"]
    /\ UNCHANGED <<pipelineRunning, method, hpc, resp, outcome, log, sessionVars,
                 pollVars, exportVars>>

\* Mutant of JobReset: the flag is not cleared.
JobResetSkip(r) ==
    /\ gpc[r] = "reset"
    /\ gpc' = [gpc EXCEPT ![r] = "unlock"]
    /\ UNCHANGED <<pipelineRunning, pipelineMutex, method, hpc, resp, outcome, log, sessionVars,
                 pollVars, exportVars>>

\* deferred pipelineRunning = false
JobReset(r) ==
    /\ gpc[r] = "reset"
    /\ pipelineRunning' = FALSE
    /\ gpc' = [gpc EXCEPT ![r] = "unlock"]
    /\ UNCHANGED <<pipelineMutex, method, hpc, resp, outcome, log, sessionVars,
                 pollVars, exportVars>>

\* deferred pipelineMutex.Unlock(); the goroutine ends
JobUnlock(r) ==
    /\ gpc[r] = "unlock"
    /\ pipelineMutex' = NoOwner
    /\ gpc' = [gpc EXCEPT ![r] = "done"]
    /\ UNCHANGED <<pipelineRunning, method, hpc, resp, outcome, log, sessionVars,
                 pollVars, exportVars>>

----------------------------------------------------------------------------

\* The steps of request r's handler after its arrival.
HandlerStep(r) ==
    \/ StartLock(r)
    \/ StartTest(r)
    \/ StartUnlockBusy(r)
    \/ StartRespondBusy(r)
    \/ StartSet(r)
    \/ StartUnlockOk(r)
    \/ StartGo(r)
    \/ StartRespondOk(r)

\* The goroutine's own steps (those of the server, not of the process).
GoroutineStep(r) ==
    \/ \E ok \in BOOLEAN : JobCreate(r, ok)
    \/ JobClose(r)
    \/ JobLock(r)
    \/ JobReset(r)
    \/ JobUnlock(r)

\* The external process ends, with some exit code.
ProcEnd(r) == \E code \in {0, 1} : ProcExit(r, code)

JobNext ==
    \E r \in StartReqs :
        \/ \E m \in Methods : StartArrive(r, m)
        \/ HandlerStep(r)
        \/ GoroutineStep(r)
        \/ ProcWrite(r)
        \/ ProcEnd(r)

----------------------------------------------------------------------------
(* /api/status and /api/pipeline-log, and the status artifact.  A poll is  *)
(* one read of one file; its response stays in lastPoll until the caller   *)
(* has it, and the job goes on meanwhile.                                  *)

\* Number of /api/start-pipeline requests beside which polls are followed.
MaxPollStarts == 2
PollReqs == 1..MaxPollStarts

\* processing/status.json: absent, present but not readable, or readable
\* with the bytes the pipeline's scripts left in it (which need not be JSON).
StatusFiles ==
    {[state |-> "absent", data |-> <<>>],
     [state |-> "unreadable", data |-> <<"{", "s", "}">>],
     [state |-> "readable", data |-> <<>>],
     [state |-> "readable", data |-> <<"{", "s", "}">>]}

\* A body that is a byte string written as it is.
Bytes(data) == [kind |-> "bytes", data |-> data]

\* json.NewEncoder(w).Encode(v): one JSON document for the value v, then a
\* newline.
Encode(v) == [kind |-> "json_line", value |-> v]

\* The map literal of the /api/status handler.
StatusDefault ==
    [status |-> "not_started",
     message |-> "Processing pipeline has not been run yet"]

\* The map literal of the /api/pipeline-log handler.
LogDefault == [log |-> "No log file found"]

\* A body that is the content of pipeline.log: the output of these runs.
LogBytes(runs) == [kind |-> "log_bytes", runs |-> runs]

NoPoll == [route |-> "none", ctype |-> "", body |-> [kind |-> "none"]]

\* The server starts in a directory without status.json.
PollInit ==
    /\ statusFile = [state |-> "absent", data |-> <<>>]
    /\ lastPoll = NoPoll

\* Mutant of StatusPoll: without a readable artifact the handler reports
\* the flag.
StatusPollFromFlag ==
    /\ lastPoll = NoPoll
    /\ \E c \in CookieInputs :
           Dispatch(<<"api", "status">>, c, sessions, now) = "status"
    /\ lastPoll' =
           [route |-> "status", ctype |-> "application/json",
            body |-> IF statusFile.state = "readable"
                       THEN Bytes(statusFile.data)
                       ELSE IF pipelineRunning
                       THEN Encode([status |-> "running"])
                       ELSE Encode(StatusDefault)]
    /\ UNCHANGED <<statusFile, jobVars, sessionVars, exportVars>>

\* The /api/status handler: os.ReadFile(statusFile), then the default or
\* the data.
StatusPoll ==
    /\ lastPoll = NoPoll
    /\ \E c \in CookieInputs :
           Dispatch(<<"api", "status">>, c, sessions, now) = "status"
    /\ lastPoll' =
           [route |-> "status", ctype |-> "application/json",
            body |-> IF statusFile.state = "readable"
                       THEN Bytes(statusFile.data)
                       ELSE Encode(StatusDefault)]
    /\ UNCHANGED <<statusFile, jobVars, sessionVars, exportVars>>

\* The /api/pipeline-log handler: os.ReadFile(logFile), then the default or
\* the data.
LogPoll ==
    /\ lastPoll = NoPoll
    /\ \E c \in CookieInputs :
           Dispatch(<<"api", "pipeline-log">>, c, sessions, now) = "pipeline-log"
    /\ lastPoll' =
           IF log.exists
             THEN [route |-> "pipeline-log", ctype |-> "text/plain",
                   body |-> LogBytes(log.data)]
             ELSE [route |-> "pipeline-log", ctype |-> "application/json",
                   body |-> Encode(LogDefault)]
    /\ UNCHANGED <<statusFile, jobVars, sessionVars, exportVars>>

\* The caller has the response.
PollReturn ==
    /\ lastPoll # NoPoll
    /\ lastPoll' = NoPoll
    /\ UNCHANGED <<statusFile, jobVars, sessionVars, exportVars>>

\* A script of the pipeline does something to status.json: the scripts are
\* opaque, so the file may be in any state afterwards.
ProcStatus(r, sf) ==
    /\ gpc[r] = "run"
    /\ sf # statusFile
    /\ statusFile' = sf
    /\ UNCHANGED <<lastPoll, jobVars, sessionVars, exportVars>>

PollNext ==
    \/ \E r \in PollReqs :
          \/ \E m \in Methods : StartArrive(r, m)
          \/ HandlerStep(r)
          \/ GoroutineStep(r)
          \/ ProcWrite(r)
          \/ ProcEnd(r)
          \/ \E sf \in StatusFiles : ProcStatus(r, sf)
    \/ StatusPoll
    \/ LogPoll
    \/ PollReturn

----------------------------------------------------------------------------
(* /api/export.  A string is the sequence of its pieces: a piece is one    *)
(* character of a request parameter, or a fragment of a format string.     *)

\* Number of /api/export requests of one run of the model.
MaxExports == 2
ExportReqs == 1..MaxExports

\* time.Now().UnixNano() is read as 0..MaxNano.
MaxNano == 1
Stamps == 0..MaxNano

\* Length of a query parameter, in characters.
MaxParamLen == 3

\* The characters of the parameters "years" and "gemeinden" that are tried.
YearChars == {"1", "2", ",", " "}
RegionChars == {"a", ",", " ", "'"}

Strs(chars) == UNION {[1..k -> chars] : k \in 0..MaxParamLen}

\* r.URL.Query() of the requests that are tried: every "years" with a few
\* "gemeinden", and every "gemeinden" with a few "years".
SampleYears == {<<>>, <<"1", ",", "2">>}
SampleRegions == {<<>>, <<"a">>}
BuildQueries ==
    {[years |-> y, gemeinden |-> g] : y \in Strs(YearChars), g \in SampleRegions}
        \cup
    {[years |-> y, gemeinden |-> g] : y \in SampleYears, g \in Strs(RegionChars)}

\* The queries of the requests that are followed side by side.
SampleQueries ==
    {[years |-> <<>>, gemeinden |-> <<>>],
     [years |-> <<"1">>, gemeinden |-> <<"a">>]}

NoQuery == [years |-> <<"none">>, gemeinden |-> <<"none">>]

\* strings.Split(s, sep) for a separator of one piece.
RECURSIVE Split(_, _)
Split(s, sp) ==
    IF \A i \in 1..Len(s) : s[i] # sp
    THEN <<s>>
    ELSE LET i == CHOOSE i \in 1..Len(s) :
                      s[i] = sp /\ \A j \in 1..(i - 1) : s[j] # sp
         IN  <<SubSeq(s, 1, i - 1)>> \o Split(SubSeq(s, i + 1, Len(s)), sp)

\* strings.TrimSpace(s)
RECURSIVE TrimSpace(_)
TrimSpace(s) ==
    IF s = <<>> THEN s
    ELSE IF s[1] = " " THEN TrimSpace(Tail(s))
    ELSE IF s[Len(s)] = " " THEN TrimSpace(SubSeq(s, 1, Len(s) - 1))
    ELSE s

\* strings.Join(list, sep)
RECURSIVE Join(_, _)
Join(list, sp) ==
    IF list = <<>> THEN <<>>
    ELSE IF Len(list) = 1 THEN list[1]
    ELSE list[1] \o sp \o Join(Tail(list), sp)

\* strings.ReplaceAll(s, old, new) for old and new of one piece.
ReplaceAll(s, old, new) == [i \in 1..Len(s) |-> IF s[i] = old THEN new ELSE s[i]]

\* cols := []string{"fid", "geom", "name", "iso", "state", "population"}
BaseCols ==
    <<<<"fid">>, <<"geom">>, <<"name">>, <<"iso">>, <<"state">>, <<"population">>>>

\* The format strings of the columns appended for one year.
YearColFormats ==
    <<"loss_pixels_", "loss_area_ha_", "harvest_efm_", "value_eur_",
      "co2_tonnes_", "ets_eur_", "ets_per_capita_">>

\* The columns appended for the year y := strings.TrimSpace(year).
YearCols(year) ==
    LET y == TrimSpace(year)
    IN  [i \in 1..Len(YearColFormats) |-> <<YearColFormats[i]>> \o y]

\* The loop over years: the columns of all of them, in order.
RECURSIVE AllYearCols(_)
AllYearCols(years) ==
    IF years = <<>> THEN <<>>
    ELSE YearCols(Head(years)) \o AllYearCols(Tail(years))

\* selectCols
SelectCols(yearsParam) ==
    IF yearsParam # <<>>
    THEN Join(BaseCols \o AllYearCols(Split(yearsParam, ",")), <<", ">>)
    ELSE <<"*">>

\* whereClause
WhereClause(gemeindenParam) ==
    IF gemeindenParam # <<>>
    THEN LET isos == Split(gemeindenParam, ",")
             quoted == [i \in 1..Len(isos) |-> <<"'">> \o TrimSpace(isos[i]) \o <<"'">>]
         IN  <<"iso IN (">> \o Join(quoted, <<",">>) \o <<")">>
    ELSE <<>>

\* sql
ExportSQL(q) ==
    <<"SELECT ">> \o SelectCols(q.years) \o <<" FROM gemeinden">>
        \o (IF WhereClause(q.gemeinden) # <<>>
              THEN <<" WHERE ">> \o WhereClause(q.gemeinden)
              ELSE <<>>)

\* filename
ExportFilename(q) ==
    <<"holzeinschlag_austria">>
        \o (IF q.gemeinden # <<>> THEN <<"_selection">> ELSE <<>>)
        \o (IF q.years # <<>> THEN <<"_">> \o ReplaceAll(q.years, ",", "-") ELSE <<>>)
        \o <<".gpkg">>

\* No file of that name in the directory.
NoFile == [exists |-> FALSE, data |-> <<>>]

\* What ogr2ogr writes for a statement: the layer the statement selects.
Layer(sql) == [exists |-> TRUE, data |-> <<"layer", sql>>]

\* What ogr2ogr may leave behind when it fails.
Partial == [exists |-> TRUE, data |-> <<"partial">>]

\* What ogr2ogr prints when it fails.
ToolOutput(sql) == <<"ERROR 1: ">> \o sql

NoTool == [runs |-> 0, sql |-> <<>>, exit |-> "none", output |-> <<>>]

NoExportResp ==
    [code |-> 0, message |-> <<>>, ctype |-> "", filename |-> <<>>, data |-> <<>>]

\* http.Error(w, message, code)
ErrorResp(message, code) ==
    [code |-> code, message |-> message, ctype |-> "text/plain; charset=utf-8",
     filename |-> <<>>, data |-> <<>>]

ExportInit ==
    /\ nano = 0
    /\ epc = [e \in ExportReqs |-> "new"]
    /\ equery = [e \in ExportReqs |-> NoQuery]
    /\ epath = [e \in ExportReqs |-> 0]
    /\ tool = [e \in ExportReqs |-> NoTool]
    /\ tmp = [p \in Stamps |-> NoFile]
    /\ eresp = [e \in ExportReqs |-> NoExportResp]

\* The clock moves on.
NanoTick ==
    /\ nano < MaxNano
    /\ nano' = nano + 1
    /\ UNCHANGED <<epc, equery, epath, tool, tmp, eresp, jobVars, sessionVars, pollVars>>

\* A request with query q arrives: the handler takes tmpPath from the
\* clock, builds the statement and starts ogr2ogr on it.
ExportArrive(e, q) ==
    /\ epc[e] = "new"
    /\ \E c \in CookieInputs :
           Dispatch(<<"api", "export">>, c, sessions, now) = "export"
    /\ equery' = [equery EXCEPT ![e] = q]
    /\ epath' = [epath EXCEPT ![e] = nano]
    /\ tool' = [tool EXCEPT ![e] = [runs |-> @.runs + 1, sql |-> ExportSQL(q),
                                      exit |-> "none", output |-> <<>>]]
    /\ epc' = [epc EXCEPT ![e] = "tool"]
    /\ UNCHANGED <<nano, tmp, eresp, jobVars, sessionVars, pollVars>>

\* Mutant of ToolExit: the failure is answered with the tool's output.
ToolExitLeaks(e, ok, left) ==
    /\ epc[e] = "tool"
    /\ IF ok
         THEN /\ tool' = [tool EXCEPT ![e].exit = "zero"]
              /\ tmp' = [tmp EXCEPT ![epath[e]] = Layer(tool[e].sql)]
              /\ epc' = [epc EXCEPT ![e] = "read"]
              /\ UNCHANGED eresp
         ELSE /\ tool' = [tool EXCEPT ![e].exit = "nonzero",
                                        ![e].output = ToolOutput(tool[e].sql)]
              /\ tmp' = IF left THEN [tmp EXCEPT ![epath[e]] = Partial] ELSE tmp
              /\ eresp' = [eresp EXCEPT ![e] = ErrorResp(ToolOutput(tool[e].sql), 500)]
              /\ epc' = [epc EXCEPT ![e] = "remove"]
    /\ UNCHANGED <<nano, equery, epath, jobVars, sessionVars, pollVars>>

\* ogr2ogr exits and cmd.CombinedOutput() returns.  On exit code 0 the file
\* at tmpPath holds the layer; otherwise the file may or may not be there
\* (left), and the handler answers 500 and returns.
ToolExit(e, ok, left) ==
    /\ epc[e] = "tool"
    /\ IF ok
         THEN /\ tool' = [tool EXCEPT ![e].exit = "zero"]
              /\ tmp' = [tmp EXCEPT ![epath[e]] = Layer(tool[e].sql)]
              /\ epc' = [epc EXCEPT ![e] = "read"]
              /\ UNCHANGED eresp
         ELSE /\ tool' = [tool EXCEPT ![e].exit = "nonzero",
                                        ![e].output = ToolOutput(tool[e].sql)]
              /\ tmp' = IF left THEN [tmp EXCEPT ![epath[e]] = Partial] ELSE tmp
              /\ eresp' = [eresp EXCEPT ![e] =
                               ErrorResp(<<"Failed to generate export">>, 500)]
              /\ epc' = [epc EXCEPT ![e] = "remove"]
    /\ UNCHANGED <<nano, equery, epath, jobVars, sessionVars, pollVars>>

\* os.ReadFile(tmpPath), then the 500 or the attachment.
ExportRead(e) ==
    /\ epc[e] = "read"
    /\ eresp' = [eresp EXCEPT ![e] =
                     IF tmp[epath[e]].exists
                       THEN [code |-> 200, message |-> <<>>,
                             ctype |-> "application/geopackage+sqlite3",
                             filename |-> ExportFilename(equery[e]),
                             data |-> tmp[epath[e]].data]
                       ELSE ErrorResp(<<"Failed to read export file">>, 500)]
    /\ epc' = [epc EXCEPT ![e] = "remove"]
    /\ UNCHANGED <<nano, equery, epath, tool, tmp, jobVars, sessionVars, pollVars>>

\* Mutant of ExportRemove: the file is removed after a success only.
ExportRemoveOnSuccess(e) ==
    /\ epc[e] = "remove"
    /\ tmp' = IF eresp[e].code = 200 THEN [tmp EXCEPT ![epath[e]] = NoFile] ELSE tmp
    /\ epc' = [epc EXCEPT ![e] = "done"]
    /\ UNCHANGED <<nano, equery, epath, tool, eresp, jobVars, sessionVars, pollVars>>

\* deferred os.Remove(tmpPath); the handler returns
ExportRemove(e) ==
    /\ epc[e] = "remove"
    /\ tmp' = [tmp EXCEPT ![epath[e]] = NoFile]
    /\ epc' = [epc EXCEPT ![e] = "done"]
    /\ UNCHANGED <<nano, equery, epath, tool, eresp, jobVars, sessionVars, pollVars>>

\* The steps of export request e after its arrival.
ExportStep(e) ==
    \/ \E ok \in BOOLEAN, left \in BOOLEAN : ToolExit(e, ok, left)
    \/ ExportRead(e)
    \/ ExportRemove(e)

\* Requests side by side.
ExportNext ==
    \/ \E e \in ExportReqs :
          \/ \E q \in SampleQueries : ExportArrive(e, q)
          \/ ExportStep(e)
    \/ NanoTick

\* One request after the other, for every query.
BuildNext ==
    \/ \E q \in BuildQueries : ExportArrive(1, q)
    \/ ExportStep(1)

----------------------------------------------------------------------------
(* The /login handler, isValidSession, the mux and time.                  *)

SessionInit ==
    /\ now = 0
    /\ sessions = [k \in {} |-> 0]
    /\ lastLogin = NoLogin
    /\ lastCheck = NoCheck
    /\ front = NoFront

\* The /login handler on a request with method m, form value pw, TLS state
\* tls and X-Forwarded-Proto xfp; b is what rand.Read yields if the handler
\* comes to createSession.
Login(m, pw, tls, xfp, b) ==
    LET out(status, body, location, cookie) ==
            [method |-> m, password |-> pw, tls |-> tls, xfp |-> xfp,
             status |-> status, body |-> body, location |-> location,
             cookie |-> cookie]
    IN  /\ IF m = "GET"
             THEN /\ lastLogin' = out(200, "login_page", "", NoSetCookie)
                  /\ UNCHANGED sessions
             ELSE IF m = "POST"
             THEN IF checkPassword(pw)
                    THEN LET token == generateToken(b)
                         IN  /\ sessions' = StoreSession(sessions, token, now)
                             /\ lastLogin' = out(303, "", "/",
                                    SessionCookie(token, isSecure(tls, xfp)))
                    ELSE /\ lastLogin' = out(200, "error_page", "", NoSetCookie)
                         /\ UNCHANGED sessions
             ELSE /\ lastLogin' = out(200, "", "", NoSetCookie)
                  /\ UNCHANGED sessions
        /\ now' = now
        /\ lastCheck' = NoCheck
        /\ front' = NoFront
        /\ UNCHANGED <<jobVars, pollVars, exportVars>>

\* isValidSession is applied to a request.
CheckSession(c) ==
    /\ lastCheck' = [cookie |-> c, result |-> isValidSession(c, sessions, now)]
    /\ lastLogin' = NoLogin
    /\ front' = NoFront
    /\ UNCHANGED <<now, sessions, jobVars, pollVars, exportVars>>

\* The mux dispatches a request for path that carries cookie c.
Serve(path, c) ==
    /\ front' = [path |-> path, cookie |-> c,
                 handler |-> Dispatch(path, c, sessions, now)]
    /\ lastLogin' = NoLogin
    /\ lastCheck' = NoCheck
    /\ UNCHANGED <<now, sessions, jobVars, pollVars, exportVars>>

\* Time passes.
Tick ==
    /\ now + TickHours <= MaxNow
    /\ now' = now + TickHours
    /\ lastCheck' = NoCheck
    /\ lastLogin' = NoLogin
    /\ front' = NoFront
    /\ UNCHANGED <<sessions, jobVars, pollVars, exportVars>>

SessionNext ==
    \/ \E m \in Methods, pw \in Passwords, tls \in TlsStates,
          xfp \in ForwardedProtos, b \in RandomBlocks : Login(m, pw, tls, xfp, b)
    \/ \E c \in CookieInputs : CheckSession(c)
    \/ \E path \in Paths, c \in CookieInputs : Serve(path, c)
    \/ Tick

----------------------------------------------------------------------------
(* Specifications.                                                         *)

Init == JobInit /\ SessionInit /\ PollInit /\ ExportInit

Next == JobNext \/ SessionNext \/ PollNext \/ ExportNext \/ BuildNext

\* The whole server.
Spec == Init /\ [][Next]_vars

\* The job supervisor alone, and the session layer alone.
JobSpec == Init /\ [][JobNext]_vars
SessionSpec == Init /\ [][SessionNext]_vars

\* The job supervisor with the polls of its artifacts.
PollSpec == Init /\ [][PollNext]_vars

\* The export handler: requests side by side, and one by one for all queries.
ExportSpec == Init /\ [][ExportNext]_vars
BuildSpec == Init /\ [][BuildNext]_vars

\* A step of the server itself: of a handler or of a goroutine.
ServerStep == \E r \in StartReqs : HandlerStep(r) \/ GoroutineStep(r)

\* A step of the server, or the end of an external process.
ServerOrProcStep ==
    \E r \in StartReqs : HandlerStep(r) \/ GoroutineStep(r) \/ ProcEnd(r)

\* The server's threads keep running; the external process may run forever.
LaunchSpec == JobSpec /\ WF_vars(ServerStep)

\* The server's threads keep running and every external process ends.
FairSpec == JobSpec /\ WF_vars(ServerOrProcStep)

----------------------------------------------------------------------------
(* Properties of the job supervisor.                                       *)

\* Request r found the flag clear: it sets the flag and launches a job.
Won(r) ==
    \/ hpc[r] \in {"set", "unlock_ok", "go", "respond_ok"}
    \/ hpc[r] = "done" /\ resp[r].status = "started"

\* The job of request r is outstanding: r won and its goroutine has not yet
\* reset the flag.
Outstanding(r) == Won(r) /\ gpc[r] \notin {"unlock", "done"}

\* The goroutine of request r is executing the job body or is on its way to
\* the reset.
Executing(r) == gpc[r] \in {"create", "run", "close", "lock", "reset"}

\* C1: at most one job goroutine (and so at most one external process)
\* exists at any time, and while one is executing (up to its reset of the
\* flag) pipelineRunning is true.
C1_AtMostOneJob ==
    /\ Cardinality({r \in StartReqs : gpc[r] \notin {"none", "done"}}) <= 1
    /\ \A r \in StartReqs : Executing(r) => pipelineRunning

\* A second job runs after the first has ended, while a third request is
\* inside the critical section.
C1_Witness ==
    \E r, q, p \in StartReqs :
        /\ gpc[r] = "done"
        /\ gpc[q] = "run"
        /\ hpc[p] = "test"

\* C2: at most one request has an outstanding job; a request that tests the
\* flag is turned away exactly when the job of another request is
\* outstanding and wins otherwise (so also after that job has reset the
\* flag); a winner is answered "started", a request turned away
\* "already_running".
C2_OneWinner ==
    /\ [](Cardinality({r \in StartReqs : Outstanding(r)}) <= 1)
    /\ [][\A r \in StartReqs :
            /\ (hpc[r] = "test" /\ hpc'[r] # "test") =>
                  /\ hpc'[r] = "unlock_busy" <=> (\E q \in StartReqs \ {r} : Outstanding(q))
                  /\ hpc'[r] = "set" <=> ~(\E q \in StartReqs \ {r} : Outstanding(q))
            /\ (hpc[r] = "respond_ok" /\ hpc'[r] = "done") => resp'[r].status = "started"
            /\ (hpc[r] = "respond_busy" /\ hpc'[r] = "done") =>
                  resp'[r].status = "already_running"
            /\ (hpc[r] = "set" /\ hpc'[r] # "set") => hpc'[r] = "unlock_ok"
            /\ (hpc[r] = "unlock_ok" /\ hpc'[r] # "unlock_ok") => hpc'[r] = "go"
            /\ (hpc[r] = "go" /\ hpc'[r] # "go") => hpc'[r] = "respond_ok"
            /\ (hpc[r] = "unlock_busy" /\ hpc'[r] # "unlock_busy") =>
                  hpc'[r] = "respond_busy"]_vars

\* One request started a job, another was turned away, and after the job
\* ended a third request started a job again.
C2_Witness ==
    \E r, q, p \in StartReqs :
        /\ resp[r].status = "started" /\ gpc[r] = "done"
        /\ resp[q].status = "already_running"
        /\ resp[p].status = "started" /\ p # r

\* C3: the flag is set only while some request's job is outstanding (it is
\* never left set by a goroutine that has ended); a job whose log file could
\* not be created never runs the process; and, every process ending, a set
\* flag is always cleared again.
C3_RunningLeadsToIdle ==
    /\ [](pipelineRunning => \E r \in StartReqs : Outstanding(r))
    /\ [][\A r \in StartReqs :
            outcome[r] = "create_failed" => gpc'[r] \notin {"run", "close"}]_vars
    /\ (pipelineRunning ~> ~pipelineRunning)

\* Three jobs have ended, one on each exit path, their callers were all
\* answered "started", and the flag is clear.
C3_Witness ==
    \E r, q, p \in StartReqs :
        /\ outcome[r] = "create_failed" /\ gpc[r] = "done" /\ resp[r].status = "started"
        /\ outcome[q] = "exit_zero" /\ gpc[q] = "done"
        /\ outcome[p] = "exit_nonzero" /\ gpc[p] = "done"
        /\ ~pipelineRunning

\* C4: the steps of a request that found the flag set leave the flag (true
\* when tested), every goroutine and the log file as they are, and no job is
\* ever launched for such a request, also not after the running job ends.
C4_RejectedIsNoOp ==
    /\ [](\A r \in StartReqs :
            (hpc[r] \in {"unlock_busy", "respond_busy"}
               \/ resp[r].status = "already_running")
            => gpc[r] = "none" /\ outcome[r] = "none")
    /\ [][\A r \in StartReqs :
            /\ (hpc[r] = "test" /\ hpc'[r] = "unlock_busy") =>
                  pipelineRunning /\ pipelineRunning'
            /\ (hpc[r] \in {"test", "unlock_busy", "respond_busy"}
                  /\ hpc'[r] \in {"unlock_busy", "respond_busy", "done"}
                  /\ hpc'[r] # hpc[r])
               => UNCHANGED <<pipelineRunning, gpc, outcome, log>>]_vars

\* A request was turned away, the job that was running has ended, the flag
\* is clear, every handler has returned, and no job exists for the request.
C4_Witness ==
    \E r, q \in StartReqs :
        /\ resp[r].status = "already_running" /\ gpc[r] = "none"
        /\ gpc[q] = "done"
        /\ ~pipelineRunning
        /\ \A p \in StartReqs : hpc[p] = "done"

\* A request that won has not yet been answered.
AwaitingStarted == \E r \in StartReqs : hpc[r] \in {"unlock_ok", "go", "respond_ok"}

\* C5: whether or not the external process ever ends, a request that won is
\* answered "started"; a handler whose job exists does not hold the mutex,
\* and it has been answered "started" when it has returned.
C5_StartNeverWaits ==
    /\ [](\A r \in StartReqs :
            gpc[r] # "none" =>
               /\ pipelineMutex # Handler(r)
               /\ hpc[r] = "done" => resp[r].status = "started")
    /\ (AwaitingStarted ~> ~AwaitingStarted)

\* The caller has its "started" response while the process is still running.
C5_Witness ==
    \E r \in StartReqs :
        /\ resp[r].status = "started"
        /\ hpc[r] = "done"
        /\ gpc[r] = "run"

\* C6: a request whose method is not POST is answered 405 in the step in
\* which it arrives, and that step leaves the flag, the mutex, the
\* goroutines and the log file as they are; no job ever exists for it.
C6_NonPostIs405 ==
    /\ [](\A r \in StartReqs :
            method[r] \notin {"none", "POST"} =>
               /\ resp[r] = [code |-> 405, status |-> ""]
               /\ hpc[r] = "done"
               /\ gpc[r] = "none")
    /\ [][\A r \in StartReqs :
            (hpc[r] = "new" /\ hpc'[r] # "new" /\ method'[r] # "POST") =>
               /\ resp'[r].code = 405
               /\ UNCHANGED <<pipelineRunning, pipelineMutex, gpc, outcome, log>>]_vars

\* A GET was answered 405 and a PUT was answered 405 while a job is running.
C6_Witness ==
    \E r, q, p \in StartReqs :
        /\ method[r] = "GET" /\ resp[r].code = 405
        /\ method[p] = "PUT" /\ resp[p].code = 405
        /\ gpc[q] = "run" /\ pipelineRunning

----------------------------------------------------------------------------
(* Properties of the session layer.                                        *)

\* The session cookie of request cookie c is stored and not yet expired.
StoredAndFresh(c) ==
    /\ c.present
    /\ c.value \in DOMAIN sessions
    /\ now < sessions[c.value]

\* C7: isValidSession returns true for a stored token before its expiry and
\* returns false, without failing, in every other case: an expired token, a
\* value never issued (of any length, the empty one included) and a request
\* without a session cookie.
C7_IsValidTotal ==
    lastCheck.result # "none" =>
        lastCheck.result = IF StoredAndFresh(lastCheck.cookie) THEN "true" ELSE "false"

\* C8: a createSession call never returns a token that is already in the
\* store, so it never overwrites an entry.
C8_TokensDistinct ==
    [][sessions' # sessions => lastLogin'.cookie.value \notin DOMAIN sessions]_vars

\* The passwords of the allow-list.
AllowList == {"fridolin2026", "lutz2026"}

\* C9: a POST /login is answered 303 to "/" with the session cookie of an
\* entry that was just stored exactly when its password is on the
\* allow-list; otherwise it is answered 200 with the error page and no
\* cookie, and the store is left as it was.
C9_LoginIffAllowed ==
    /\ [](lastLogin.method = "POST" =>
            IF lastLogin.password \in AllowList
              THEN /\ lastLogin.status = 303
                   /\ lastLogin.location = "/"
                   /\ lastLogin.cookie.name = "session"
                   /\ lastLogin.cookie.value \in DOMAIN sessions
                   /\ sessions[lastLogin.cookie.value] = now + sessionDuration
              ELSE /\ lastLogin.status = 200
                   /\ lastLogin.body = "error_page"
                   /\ lastLogin.cookie = NoSetCookie)
    /\ [][(lastLogin'.method = "POST" /\ lastLogin'.password \notin AllowList)
            => sessions' = sessions]_vars

\* With a session in the store, a POST with the empty password was answered
\* with the error page.
C9_Witness ==
    /\ DOMAIN sessions # {}
    /\ lastLogin.method = "POST"
    /\ lastLogin.password = ""
    /\ lastLogin.status = 200
    /\ lastLogin.body = "error_page"

\* C10: the session cookie is HttpOnly; it is Secure with SameSite=None when
\* the request came over TLS or carries X-Forwarded-Proto: https, and not
\* Secure with SameSite=Lax otherwise.
C10_CookieAttributes ==
    lastLogin.cookie # NoSetCookie =>
        /\ lastLogin.cookie.httpOnly
        /\ IF lastLogin.tls \/ lastLogin.xfp = "https"
             THEN lastLogin.cookie.secure /\ lastLogin.cookie.sameSite = "None"
             ELSE ~lastLogin.cookie.secure /\ lastLogin.cookie.sameSite = "Lax"

\* A cookie set for a request without TLS that a proxy marked as https.
C10_Witness ==
    /\ lastLogin.cookie # NoSetCookie
    /\ ~lastLogin.tls
    /\ lastLogin.xfp = "https"
    /\ lastLogin.cookie.secure
    /\ lastLogin.cookie.sameSite = "None"

----------------------------------------------------------------------------
(* Properties of the routes.                                               *)

\* The cookie carries a token of the store whose expiry has passed.
Expired(c) ==
    /\ c.present
    /\ c.value \in DOMAIN sessions
    /\ now >= sessions[c.value]

\* C17: access control lets everything through: whatever cookie a request
\* carries (none, an unknown token, an expired token, a valid token), it is
\* served by the handler its path is registered for; and with no session in
\* the store at all, a POST to /api/start-pipeline is taken up by its
\* handler, which goes on to the test-and-set.
C17_PassThrough ==
    /\ front # NoFront => front.handler = Mux(front.path).handler
    /\ \A r \in StartReqs :
          (hpc[r] = "new" /\ DOMAIN sessions = {}) => ENABLED StartArrive(r, "POST")

\* A request with an expired token was served by the start-pipeline handler.
C17_Witness ==
    /\ front.path = <<"api", "start-pipeline">>
    /\ Expired(front.cookie)
    /\ front.handler = "start-pipeline"

\* C19: no step removes an entry of the session store or changes its
\* expiry.
C19_EntriesAreFixed ==
    [][\A k \in DOMAIN sessions :
          k \in DOMAIN sessions' /\ sessions'[k] = sessions[k]]_vars

----------------------------------------------------------------------------
(* Properties of the log file.                                             *)

\* The goroutine of request r has pipeline.log open.
HoldsLog(r) == gpc[r] \in {"run", "close"}

\* C20: pipeline.log is held open only while pipelineRunning is true, by at
\* most one goroutine; it is created, truncated or written only in steps
\* that begin and end with the flag true; and when the flag is reset nobody
\* holds the file and no external process is alive.
C20_LogOnlyWhileRunning ==
    /\ [](\A r \in StartReqs : HoldsLog(r) => pipelineRunning)
    /\ [](Cardinality({r \in StartReqs : HoldsLog(r)}) <= 1)
    /\ [][log' # log => pipelineRunning /\ pipelineRunning']_vars
    /\ [][pipelineRunning /\ ~pipelineRunning'
            => \A r \in StartReqs : ~HoldsLog(r)]_vars

\* A second run writes to the log after a first run has written and ended.
C20_Witness ==
    \E r, q \in StartReqs :
        /\ gpc[r] = "done"
        /\ outcome[r] \in {"exit_zero", "exit_nonzero"}
        /\ gpc[q] = "run"
        /\ log.data = {q}
        /\ pipelineRunning

----------------------------------------------------------------------------
(* Properties of the polls.                                                *)

\* A poll of the route is answered in this step.
Answered(route) == lastPoll.route = "none" /\ lastPoll'.route = route

\* C15: /api/status answers with the bytes of status.json as they are when
\* the file is readable, and with the JSON document {"status":
\* "not_started", "message": "Processing pipeline has not been run yet"}
\* when it is absent or unreadable, whatever the state of the job; the step
\* changes neither the job's state nor any file.
C15_StatusRelay ==
    [][Answered("status") =>
          /\ lastPoll'.body =
                IF statusFile.state = "readable"
                  THEN [kind |-> "bytes", data |-> statusFile.data]
                  ELSE [kind |-> "json_line",
                        value |-> [status |-> "not_started",
                                   message |-> "Processing pipeline has not been run yet"]]
          /\ UNCHANGED <<jobVars, statusFile, tmp>>]_vars

\* While a job runs and status.json is unreadable, /api/status has answered
\* with the default.
C15_Witness ==
    /\ pipelineRunning
    /\ statusFile.state = "unreadable"
    /\ lastPoll.route = "status"
    /\ lastPoll.body.kind = "json_line"
    /\ lastPoll.body.value.status = "not_started"

\* The job of request r got as far as starting its process.
BeganRun(r) ==
    \/ gpc[r] \in {"run", "close"}
    \/ gpc[r] \in {"lock", "reset", "unlock", "done"}
          /\ outcome[r] \in {"exit_zero", "exit_nonzero"}

\* C16: the step that creates the log file for a job leaves it empty; from
\* then on the file holds no output but that job's, and once any job has
\* begun it holds the output of one job at most and none from before the
\* server started; /api/pipeline-log answers with the bytes of the file at
\* that moment as text/plain, or with the JSON document {"log": "No log
\* file found"} when there is no file.
C16_LogIsOfLatestRun ==
    /\ [][\A r \in StartReqs :
             (gpc[r] = "create" /\ gpc'[r] = "run")
                 => log'.exists /\ log'.data = {}]_vars
    /\ [](\A r \in StartReqs : HoldsLog(r) => log.data \subseteq {r})
    /\ []((\E r \in StartReqs : BeganRun(r))
            => 0 \notin log.data /\ Cardinality(log.data) <= 1)
    /\ [][Answered("pipeline-log") =>
             lastPoll' =
                IF log.exists
                  THEN [route |-> "pipeline-log", ctype |-> "text/plain",
                        body |-> [kind |-> "log_bytes", runs |-> log.data]]
                  ELSE [route |-> "pipeline-log", ctype |-> "application/json",
                        body |-> [kind |-> "json_line",
                                  value |-> [log |-> "No log file found"]]]]_vars

\* After a first job wrote to the log and ended, a poll during the second
\* job was answered with the output of the second job alone.
C16_Witness ==
    \E r, q \in StartReqs :
        /\ gpc[r] = "done"
        /\ outcome[r] \in {"exit_zero", "exit_nonzero"}
        /\ gpc[q] = "run"
        /\ lastPoll.route = "pipeline-log"
        /\ lastPoll.body = [kind |-> "log_bytes", runs |-> {q}]

----------------------------------------------------------------------------
(* Properties of the export.                                               *)

\* The tokens of a parameter: its parts between commas, each without the
\* white space around it.
TrimmedTokens(param) ==
    LET parts == Split(param, ",")
    IN  [i \in 1..Len(parts) |-> TrimSpace(parts[i])]

\* The place of a piece in a string, 0 when it does not occur.
IndexOf(s, piece) ==
    IF \E i \in 1..Len(s) : s[i] = piece
    THEN CHOOSE i \in 1..Len(s) : s[i] = piece /\ \A j \in 1..(i - 1) : s[j] # piece
    ELSE 0

\* The seven columns of the template for a year.
TemplateCols(y) ==
    <<<<"loss_pixels_">> \o y, <<"loss_area_ha_">> \o y, <<"harvest_efm_">> \o y,
      <<"value_eur_">> \o y, <<"co2_tonnes_">> \o y, <<"ets_eur_">> \o y,
      <<"ets_per_capita_">> \o y>>

RECURSIVE TemplateColsOfAll(_)
TemplateColsOfAll(ys) ==
    IF ys = <<>> THEN <<>>
    ELSE TemplateCols(Head(ys)) \o TemplateColsOfAll(Tail(ys))

\* The columns a statement is to select for the parameter "years".
ExpectedColumns(years) ==
    IF years = <<>>
    THEN <<<<"*">>>>
    ELSE <<<<"fid">>, <<"geom">>, <<"name">>, <<"iso">>, <<"state">>, <<"population">>>>
             \o TemplateColsOfAll(TrimmedTokens(years))

\* A list of SQL string literals, as SQLite reads it: t from place i on, in
\* mode "open" (a literal is to begin), "in" (inside a literal, cur read so
\* far; two quotes stand for one) or "closed" (after a literal); acc are the
\* literals read.  The list ends with ")" as the last piece of t.
RECURSIVE ReadLiterals(_, _, _, _, _)
ReadLiterals(t, i, mode, cur, acc) ==
    IF i > Len(t) THEN [ok |-> FALSE, items |-> acc]
    ELSE IF mode = "open"
    THEN IF t[i] = "'" THEN ReadLiterals(t, i + 1, "in", <<>>, acc)
         ELSE [ok |-> FALSE, items |-> acc]
    ELSE IF mode = "in"
    THEN IF t[i] # "'" THEN ReadLiterals(t, i + 1, "in", Append(cur, t[i]), acc)
         ELSE IF i < Len(t) /\ t[i + 1] = "'"
         THEN ReadLiterals(t, i + 2, "in", Append(cur, "'"), acc)
         ELSE ReadLiterals(t, i + 1, "closed", <<>>, Append(acc, cur))
    ELSE IF t[i] = "," THEN ReadLiterals(t, i + 1, "open", <<>>, acc)
    ELSE [ok |-> t[i] = ")" /\ i = Len(t), items |-> acc]

\* The predicate is iso IN (...) with exactly these values, in this order.
RestrictsIsoTo(predicate, values) ==
    /\ predicate # <<>>
    /\ predicate[1] = "iso IN ("
    /\ LET list == ReadLiterals(Tail(predicate), 1, "open", <<>>, <<>>)
       IN  list.ok /\ list.items = values

\* The statement is SELECT <columns> FROM gemeinden with the columns for
\* years, and no more.
SelectsColumnsFor(sql, years) ==
    LET fromAt == IndexOf(sql, " FROM gemeinden")
    IN  /\ sql[1] = "SELECT "
        /\ fromAt > 2
        /\ Split(SubSeq(sql, 2, fromAt - 1), ", ") = ExpectedColumns(years)

\* What follows FROM gemeinden in the statement: nothing, or WHERE and a
\* predicate.
PredicateOf(sql) ==
    LET fromAt == IndexOf(sql, " FROM gemeinden")
    IN  IF fromAt < Len(sql) /\ sql[fromAt + 1] = " WHERE "
        THEN SubSeq(sql, fromAt + 2, Len(sql))
        ELSE SubSeq(sql, fromAt + 1, Len(sql))

\* The columns alone: the statement handed to ogr2ogr selects * when "years"
\* is empty and otherwise the 6 base columns and then, for each trimmed
\* token of "years" in order, the 7 columns of the template.
ColumnsAreOfTemplate ==
    \A e \in ExportReqs :
        tool[e].runs > 0 => SelectsColumnsFor(tool[e].sql, equery[e].years)

\* C11: the statement handed to ogr2ogr is SELECT <columns> FROM gemeinden
\* [WHERE <predicate>] with the columns as above; it has a predicate exactly
\* when "gemeinden" is not empty, and the predicate then restricts iso to
\* exactly the trimmed tokens of "gemeinden".
C11_ExportStatement ==
    /\ ColumnsAreOfTemplate
    /\ \A e \in ExportReqs :
          tool[e].runs > 0 =>
              IF equery[e].gemeinden = <<>>
                THEN PredicateOf(tool[e].sql) = <<>>
                ELSE RestrictsIsoTo(PredicateOf(tool[e].sql),
                                    TrimmedTokens(equery[e].gemeinden))

\* C12: when the handler of an export request returns, no file is at its
\* temporary path; and when no handler is under way, no export file is in
\* the temporary directory.
C12_NoFileLeftBehind ==
    /\ [][\A e \in ExportReqs :
             (epc[e] # "done" /\ epc'[e] = "done") => ~tmp'[epath[e]].exists]_vars
    /\ []((\A e \in ExportReqs : epc[e] \in {"new", "done"})
            => \A p \in Stamps : ~tmp[p].exists)

\* Every request has returned: one after the tool failed and left a file,
\* one after a success.
C12_Witness ==
    /\ \A e \in ExportReqs : epc[e] = "done"
    /\ \E e \in ExportReqs : tool[e].exit = "nonzero"
    /\ \E e \in ExportReqs : eresp[e].code = 200

\* The handler of export request e is under way.
InFlight(e) == epc[e] \in {"tool", "read", "remove"}

\* C13: two export requests under way at the same time have different
\* temporary paths, and a successful response carries the layer of the
\* request's own statement.
C13_ExportsIndependent ==
    /\ \A e1, e2 \in ExportReqs :
          (e1 # e2 /\ InFlight(e1) /\ InFlight(e2)) => epath[e1] # epath[e2]
    /\ \A e \in ExportReqs :
          eresp[e].code = 200 => eresp[e].data = <<"layer", tool[e].sql>>

\* One string occurs in another.
Contains(s, part) ==
    \E i \in 0..(Len(s) - Len(part)) : SubSeq(s, i + 1, i + Len(part)) = part

\* C14: an export request whose tool exited non-zero is answered 500 with
\* the message "Failed to generate export", which contains neither the
\* statement nor the tool's output, and with no attachment; and no request
\* runs the tool more than once.
C14_ToolFailureIsGeneric ==
    \A e \in ExportReqs :
        /\ tool[e].runs <= 1
        /\ tool[e].exit = "nonzero" =>
              /\ tool[e].runs = 1
              /\ eresp[e].code = 500
              /\ eresp[e].message = <<"Failed to generate export">>
              /\ ~Contains(eresp[e].message, tool[e].sql)
              /\ ~Contains(eresp[e].message, tool[e].output)
              /\ eresp[e].data = <<>>
              /\ eresp[e].filename = <<>>

\* The tool failed on a statement with a predicate and the handler has
\* returned.
C14_Witness ==
    \E e \in ExportReqs :
        /\ epc[e] = "done"
        /\ tool[e].exit = "nonzero"
        /\ equery[e].gemeinden # <<>>
        /\ eresp[e].code = 500

\* C18: the attachment of a successful export is named
\* holzeinschlag_austria, then _selection when "gemeinden" is not empty,
\* then _ and the trimmed tokens of "years" joined by - when "years" is not
\* empty, then .gpkg.
C18_Filename ==
    \A e \in ExportReqs :
        eresp[e].code = 200 =>
            eresp[e].filename =
                <<"holzeinschlag_austria">>
                    \o (IF equery[e].gemeinden # <<>> THEN <<"_selection">> ELSE <<>>)
                    \o (IF equery[e].years # <<>>
                          THEN <<"_">> \o Join(TrimmedTokens(equery[e].years), <<"-">>)
                          ELSE <<>>)
                    \o <<".gpkg">>

====
